---- MODULE Spec2Model ----
(***************************************************************************)
(* Model of survey-fill (src/main.py): the bounded worker pool of          *)
(* run_threaded_submissions, the Submission Unit life cycle                 *)
(* (submission_worker / FormFiller.__init__ / setup_browser / run /         *)
(* fill_form / cleanup), the part of main() that feeds and wraps it         *)
(* (the prompts, get_names_from_user, the exit status) and                  *)
(* FormFiller.parse_custom_name as a function of its input string.          *)
(*                                                                         *)
(* Dispatch indices are 0-based as in the code (range(submission_count)).  *)
(* Python lists are modelled as TLA+ sequences, so element k of a Python   *)
(* list is element k+1 of the sequence.                                    *)
(***************************************************************************)
EXTENDS Integers, Sequences, FiniteSets, TLC

\* ---------------------------------------------------------------- bounds
MaxCount == 3
MaxCpu == 4
MaxNames == 2
MaxWorkersArg == 2
MaxFaults == 1
MaxLen == 4                 \* longest custom_input given to parse_custom_name

\* ------------------------------------------------------------- constants
\* `if i % 5 == 0` in the drain loop.
ProgressEvery == 5

AllNames == <<"Alice", "Bob", "Carol", "Dave", "Erin">>
RandomIdentity == "random"
NoIdentity == "unused"

\* Characters custom_input is made of: a letter that is no gender letter, an
\* upper-case and a lower-case gender letter, a digit, a blank and a separator.
Alphabet == {"Z", "F", "m", "4", " ", "+"}
GenderLetters == {"F", "M", "f", "m"}       \* [FMfm]
Letters == {"Z"} \cup GenderLetters          \* [a-zA-Z], as far as Alphabet goes
DigitChars == <<"0", "1", "2", "3", "4", "5", "6", "7", "8", "9">>
Digits == {DigitChars[d] : d \in 1..Len(DigitChars)}      \* \d
Whitespace == {" "}
\* SAMPLE_AGES = list(range(17, 25))
SAMPLE_AGES == 17..24

\* The three session resources setup_browser acquires, in acquisition order.
AcquireOrder == <<"playwright", "browser", "context">>
\* The order in which cleanup releases them.
ReleaseOrder == <<"context", "browser", "playwright">>

VARIABLES
    caller,                 \* "main" (the CLI) or "direct" (a call of run_threaded_submissions)
    pc,                     \* position of the coordinating (main) thread
    cpu_count,              \* multiprocessing.cpu_count()
    submission_count,
    names,
    max_workers_arg,        \* <<>> for None, <<n>> for an explicit argument
    pool_size,              \* <<>> while no executor exists, <<n>> = its max_workers
    dispatched,             \* number of executor.submit calls made so far
    units,                  \* per dispatch index: the Submission Unit and its future
    drained,                \* indices as_completed has already yielded
    future_errors,          \* indices whose future.result() raised in the drain loop
    successful_submissions,
    failed_submissions,
    progress,               \* values of i at which a progress line was logged
    report,                 \* <<>> until the final summary is logged, then <<record>>
    exc,                    \* exception propagating in the main thread, "none" if none
    exit_code,              \* <<>> while the process runs, <<n>> once it has exited
    custom_input,           \* the string given to parse_custom_name (sequence of characters)
    parsed,                 \* <<>> until parse_custom_name has returned, then <<dict>>
    faults                  \* injected faults so far (bounded by MaxFaults)

vars == <<caller, pc, cpu_count, submission_count, names, max_workers_arg,
          pool_size, dispatched, units, drained, future_errors,
          successful_submissions, failed_submissions, progress, report, exc,
          exit_code, custom_input, parsed, faults>>

\* Variable groups, for UNCHANGED.
hostVars == <<caller, cpu_count, max_workers_arg>>
inputVars == <<submission_count, names>>
poolVars == <<pool_size, dispatched, units>>
drainVars == <<drained, future_errors, successful_submissions,
               failed_submissions, progress>>
endVars == <<report, exc, exit_code>>
parseVars == <<custom_input, parsed>>

\* The dispatch indices the run has room for.
Indices == DOMAIN units

Min(a, b) == IF a < b THEN a ELSE b
Max(a, b) == IF a > b THEN a ELSE b

RECURSIVE Prefix(_, _)
Prefix(s, k) == IF k = 0 THEN <<>> ELSE Append(Prefix(s, k - 1), s[k])

NamePools == {Prefix(AllNames, k) : k \in 0..MaxNames}

\* ------------------------------------------------------ pure functions

\* Mutant: the halving of cpu_count is forgotten.
DefaultMaxWorkers_NoHalving(cpu, count) == Min(Max(cpu, 1), count)

\* usable_cpu_count and the default pool size.
DefaultMaxWorkers(cpu, count) == Min(Max(cpu \div 2, 1), count)

\* `if max_workers is None: max_workers = min(usable_cpu_count, submission_count)`
EffectiveMaxWorkers(arg, cpu, count) ==
    IF arg = <<>> THEN DefaultMaxWorkers(cpu, count) ELSE arg[1]

\* Mutant: every unit starts at offset 0.
StartNameIndex_AlwaysZero(i, nms) == 0

\* `i % len(names) if names else 0`
StartNameIndex(i, nms) == IF Len(nms) > 0 THEN i % Len(nms) ELSE 0

\* FormFiller.get_next_name: the identity string used and the advanced index.
get_next_name(nms, idx) ==
    IF Len(nms) = 0
    THEN [identity |-> RandomIdentity, next |-> idx]
    ELSE [identity |-> nms[idx + 1], next |-> (idx + 1) % Len(nms)]

\* setup_browser: the resources held after the first k acquisitions succeeded.
Acquired(k) == {AcquireOrder[j] : j \in 1..k}

\* cleanup: the resources still held when the first k close calls succeeded.
AfterCleanup(held, k) == held \ {ReleaseOrder[j] : j \in 1..k}

\* fill_form: what it returns for each way its body can end.  An exception is
\* caught by its own `except Exception` and turned into False.
FillPhases == {"goto_raises", "body_raises", "unconfirmed", "confirmed"}
FillRaises(phase) == phase \in {"goto_raises", "body_raises"}
fill_form(phase) == phase = "confirmed"

\* Mutant: run releases the session only after a successful fill_form.
RunCleanupCalls_OnlyOnSuccess(success) == IF success THEN 1 ELSE 0

\* FormFiller.run: the number of cleanup() calls it makes after fill_form.
RunCleanupCalls(success) == 1

\* Mutant: run increments the counters of run_threaded_submissions.
RunCounts_Shared(own, shared, success) ==
    [own |-> own,
     shared |-> IF success THEN <<shared[1] + 1, shared[2]>>
                ELSE <<shared[1], shared[2] + 1>>]

\* FormFiller.run: `self.successful_submissions += 1` or
\* `self.failed_submissions += 1`.  own is the pair of counters of the unit's
\* FormFiller, shared the pair of locals of run_threaded_submissions (which
\* run has no reference to); each pair is <<successful, failed>>.
RunCounts(own, shared, success) ==
    [own |-> IF success THEN <<own[1] + 1, own[2]>> ELSE <<own[1], own[2] + 1>>,
     shared |-> shared]

\* Mutant: a unit whose run failed is queued again.
AfterRun_RetryOnFailure(success) == IF success THEN "done" ELSE "pending"

\* submission_worker: it returns after one FormFiller.run, whatever run
\* returned (no loop, no resubmission), so the work item is finished.
AfterRun(success) == "done"

\* Mutant: the executor starts a worker thread for every queued item.
WorkerAvailable_Always(running, size) == TRUE

\* ThreadPoolExecutor(max_workers=size): a queued work item is taken only by
\* one of at most size worker threads, each executing one item at a time.
WorkerAvailable(running, size) == running < size

\* Mutant: submission_worker without its try/except.
submission_worker_NoExcept(raised, success) ==
    IF raised THEN "raised" ELSE IF success THEN "True" ELSE "False"

\* submission_worker: the value the future ends up holding.
submission_worker(raised, success) ==
    IF raised THEN "False" ELSE IF success THEN "True" ELSE "False"

\* Mutant: the failure counter is also bumped for a successful result.
CountFailed_Always(f, res) == f + 1

\* Drain loop, normal branch: the counters after future.result() returned res.
CountSucceeded(s, res) == IF res = "True" THEN s + 1 ELSE s
CountFailed(f, res) == IF res = "True" THEN f ELSE f + 1

\* Mutant: the except branch only logs.
OnFutureError_NotCounted(f) == f

\* Drain loop, `except Exception` branch.
OnFutureError(f) == f + 1

\* Mutant: as_completed never yields a future whose task returned False.
AsCompleted_OnlySuccessful(us, done) ==
    {i \in DOMAIN us : us[i].result = "True" /\ i \notin done}

\* as_completed: the futures that are finished and not yet yielded.
AsCompleted(us, done) == {i \in DOMAIN us : us[i].result # "none" /\ i \notin done}

\* str(n) for n >= 0.
RECURSIVE Str(_)
Str(n) ==
    IF n < 10 THEN <<DigitChars[n + 1]>>
    ELSE Append(Str(n \div 10), DigitChars[(n % 10) + 1])

\* str.upper() of one character of Alphabet or GenderLetters.
Upper(c) == IF c = "f" THEN "F" ELSE IF c = "m" THEN "M" ELSE c

\* str.strip(): leading and trailing whitespace removed.
RECURSIVE LStrip(_)
LStrip(s) == IF s # <<>> /\ s[1] \in Whitespace THEN LStrip(Tail(s)) ELSE s
RECURSIVE RStrip(_)
RStrip(s) ==
    IF s # <<>> /\ s[Len(s)] \in Whitespace
    THEN RStrip(SubSeq(s, 1, Len(s) - 1)) ELSE s
Strip(s) == RStrip(LStrip(s))

\* re.findall(r'[class]+', s): the maximal runs of characters of the class,
\* from left to right.
RECURSIVE FindAllRuns(_, _)
FindAllRuns(s, class) ==
    LET hits == {i \in 1..Len(s) : s[i] \in class}
    IN  IF hits = {} THEN <<>>
        ELSE LET b == CHOOSE i \in hits : \A j \in hits : i <= j
                 e == CHOOSE j \in b..Len(s) :
                        /\ \A k \in b..j : s[k] \in class
                        /\ j = Len(s) \/ s[j + 1] \notin class
             IN  <<SubSeq(s, b, e)>> \o FindAllRuns(SubSeq(s, e + 1, Len(s)), class)

\* re.findall(r'[class]', s): every character of the class, left to right.
FindAllChars(s, class) == SelectSeq(s, LAMBDA c : c \in class)

\* gender_map.get(gender_code, {'full': 'Other', ...})['full']
GenderFull(code) ==
    IF code = "F" THEN "Female" ELSE IF code = "M" THEN "Male" ELSE "Other"

\* FormFiller.parse_custom_name: the dicts it can return for raw (one dict
\* when the three findall lists are non-empty; otherwise the fallback draws a
\* random age and gender).  gender_options is a function of gender_code and
\* is left out.  No call of the try block raises for a str, so the outer
\* except is not taken.
parse_custom_name(raw) ==
    LET input == Strip(raw)
        name_part == FindAllRuns(input, Letters)
        age_part == FindAllRuns(input, Digits)
        gender_part == FindAllChars(input, GenderLetters)
    IN  IF name_part # <<>> /\ age_part # <<>> /\ gender_part # <<>>
        THEN {[name |-> name_part[1],
               age |-> age_part[1],
               gender_code |-> Upper(gender_part[1]),
               gender_full |-> GenderFull(Upper(gender_part[1])),
               original_input |-> input]}
        ELSE {[name |-> input,
               age |-> Str(a),
               gender_code |-> g,
               gender_full |-> GenderFull(g),
               original_input |-> input] : a \in SAMPLE_AGES, g \in {"F", "M"}}

\* Mutant: main() ends with status 0 whatever happened.
ExitStatus_AlwaysZero(outcome) == 0

\* main(): the status the script ends with.  run_threaded_submissions
\* returned: main falls off its end (0).  It raised: both except branches
\* call sys.exit(1).
ExitStatus(outcome) == IF outcome = "returned" THEN 0 ELSE 1

\* The status of a script ended by a KeyboardInterrupt nothing catches: the
\* interpreter prints the traceback and ends with status 1 or, where it
\* re-delivers SIGINT to itself, with what the shell reports as 130.
UncaughtInterruptStatuses == {1, 130}

\* ------------------------------------------------------------- initial state

NewUnit == [st |-> "none", current_name_index |-> 0, held |-> {},
            setup_failed |-> FALSE, fill |-> "none", identity |-> NoIdentity,
            fill_calls |-> 0, cleanup_calls |-> 0,
            own_successful |-> 0, own_failed |-> 0, result |-> "none"]

InitCommon ==
    /\ pool_size = <<>>
    /\ dispatched = 0
    /\ drained = {}
    /\ future_errors = {}
    /\ successful_submissions = 0
    /\ failed_submissions = 0
    /\ progress = {}
    /\ report = <<>>
    /\ exc = "none"
    /\ exit_code = <<>>
    /\ faults = 0

\* Room for n Submission Units, none dispatched yet.
InitUnits(n) == units = [i \in 0..(n - 1) |-> NewUnit]

\* parse_custom_name is not under study.
InitNoParse ==
    /\ custom_input = <<>>
    /\ parsed = <<>>

\* The strings parse_custom_name is called with.
ParseInputs == UNION {[1..n -> Alphabet] : n \in 0..MaxLen}

\* A FormFiller is about to parse one string.
ParseInit ==
    /\ InitCommon
    /\ caller = "direct"
    /\ pc = "parse"
    /\ cpu_count = 1
    /\ submission_count = 0
    /\ names = <<>>
    /\ max_workers_arg = <<>>
    /\ InitUnits(MaxCount)
    /\ custom_input \in ParseInputs
    /\ parsed = <<>>

\* The script is started.
InitMain ==
    /\ caller = "main"
    /\ pc = "prompt_count"
    /\ submission_count = 0
    /\ names = <<>>
    /\ max_workers_arg = <<>>

\* run_threaded_submissions is called with arguments of the caller's choice.
InitDirect ==
    /\ caller = "direct"
    /\ pc = "call"
    /\ submission_count \in (-1)..MaxCount
    /\ names \in NamePools
    /\ max_workers_arg \in {<<>>} \cup {<<n>> : n \in 1..MaxWorkersArg}

\* run_threaded_submissions is called as main() calls it (no max_workers),
\* but with the empty pool, which get_names_from_user never returns.
InitEmptyPoolCall ==
    /\ caller = "direct"
    /\ pc = "call"
    /\ submission_count \in 1..MaxCount
    /\ names = <<>>
    /\ max_workers_arg = <<>>

\* Whole runs, on a single-core host (one worker) and on a host with MaxCpu
\* cores (MaxCpu \div 2 workers).
Init ==
    /\ InitCommon
    /\ InitNoParse
    /\ InitUnits(MaxCount)
    /\ cpu_count \in {1, MaxCpu}
    /\ InitMain \/ InitEmptyPoolCall

\* Calls of run_threaded_submissions with any arguments on any host size.
PoolInit ==
    /\ InitCommon
    /\ InitNoParse
    /\ InitUnits(MaxCount)
    /\ cpu_count \in 1..MaxCpu
    /\ InitDirect

\* ------------------------------------------------------------------- main()

\* What the user types at "Enter the number of submissions to make: ":
\* text int() rejects, or text int() converts to `value`.
CountInputs ==
    {[kind |-> "text", value |-> 0]} \cup
    {[kind |-> "int", value |-> n] : n \in (-1)..MaxCount}

\* main(): the `while True` loop around int(input(...)).  A count that is
\* not positive, or text that is no number, prints a message and prompts
\* again (pc = "reprompt_count").
MainPromptCount ==
    /\ pc \in {"prompt_count", "reprompt_count"}
    /\ \E inp \in CountInputs :
         IF inp.kind = "int" /\ inp.value > 0
         THEN /\ submission_count' = inp.value
              /\ pc' = "prompt_names"
         ELSE /\ pc' = "reprompt_count"
              /\ UNCHANGED submission_count
    /\ UNCHANGED <<hostVars, parseVars, names, poolVars, drainVars, endVars, faults>>

\* Where get_names_from_user() waits in input(): no blank line so far
\* ("prompt_names"), after a blank line with no name given, which printed
\* "Please enter at least one name or press Enter again to use random names."
\* ("reprompt_names"), and after Enter was pressed again with still no name
\* ("reprompt_names_again").
NamePrompts == {"prompt_names", "reprompt_names", "reprompt_names_again"}

\* get_names_from_user(): one round of its `while True` loop.  The k-th name
\* typed is AllNames[k]; a blank line ends the loop only once a name was
\* given, otherwise it prints the message and reads again.
GetNamesFromUser ==
    /\ pc \in NamePrompts
    /\ \/ /\ names # <<>>                       \* blank line, names given: break
          /\ pc' = "call"
          /\ UNCHANGED names
       \/ /\ names = <<>>                       \* blank line, no names: continue
          /\ pc' = IF pc = "prompt_names" THEN "reprompt_names"
                                          ELSE "reprompt_names_again"
          /\ UNCHANGED names
       \/ /\ Len(names) < MaxNames              \* a name: append
          /\ names' = Append(names, AllNames[Len(names) + 1])
          /\ pc' = "prompt_names"
    /\ UNCHANGED <<hostVars, parseVars, submission_count, poolVars, drainVars, endVars, faults>>

\* Ctrl-C while main() waits in input() (the URL, the count or a name):
\* these calls are outside main's try, so the KeyboardInterrupt is uncaught.
PromptInterrupt ==
    /\ pc \in {"prompt_count", "reprompt_count"} \cup NamePrompts
    /\ faults < MaxFaults
    /\ faults' = faults + 1
    /\ exc' = "KeyboardInterrupt"
    /\ \E status \in UncaughtInterruptStatuses : exit_code' = <<status>>
    /\ pc' = "exited"
    /\ UNCHANGED <<hostVars, parseVars, inputVars, poolVars, drainVars, report>>

\* ------------------------------------------------ run_threaded_submissions

\* Entry: counters reset, max_workers computed, ThreadPoolExecutor created.
\* ThreadPoolExecutor raises ValueError for max_workers <= 0, which leaves
\* run_threaded_submissions before anything is submitted.
EnterRun ==
    /\ pc = "call"
    /\ successful_submissions' = 0
    /\ failed_submissions' = 0
    /\ LET mw == EffectiveMaxWorkers(max_workers_arg, cpu_count, submission_count)
       IN  IF mw <= 0
           THEN /\ exc' = "ValueError"
                /\ pc' = "propagate"
                /\ UNCHANGED pool_size
           ELSE /\ pool_size' = <<mw>>
                /\ pc' = "dispatch"
                /\ UNCHANGED exc
    /\ UNCHANGED <<hostVars, parseVars, inputVars, dispatched, units, drained,
                   future_errors, progress, report, exit_code, faults>>

\* One executor.submit of the list comprehension, for i = dispatched.
Submit ==
    /\ pc = "dispatch"
    /\ dispatched < submission_count
    /\ LET i == dispatched
       IN  units' = [units EXCEPT ![i] =
                        [@ EXCEPT !.st = "pending",
                                  !.current_name_index = StartNameIndex(i, names)]]
    /\ dispatched' = dispatched + 1
    /\ UNCHANGED <<hostVars, parseVars, inputVars, pc, pool_size, drainVars, endVars, faults>>

\* The list comprehension is complete: the drain loop starts.
DispatchDone ==
    /\ pc = "dispatch"
    /\ dispatched >= submission_count
    /\ pc' = "drain"
    /\ UNCHANGED <<hostVars, parseVars, inputVars, poolVars, drainVars, endVars, faults>>

\* ------------------------------------------------------- Submission Unit

\* Units a worker thread is executing.
RunningUnits == {i \in Indices : units[i].st = "running"}

\* A worker thread takes the oldest queued work item (the executor's queue is
\* FIFO) when fewer than max_workers units are being executed.
Start(i) ==
    /\ pool_size # <<>>
    /\ units[i].st = "pending"
    /\ \A j \in Indices : j < i => units[j].st # "pending"
    /\ WorkerAvailable(Cardinality(RunningUnits), pool_size[1])
    /\ units' = [units EXCEPT ![i].st = "running"]
    /\ UNCHANGED <<hostVars, parseVars, inputVars, pc, pool_size, dispatched, drainVars,
                   endVars, faults>>

\* submission_worker when FormFiller.__init__ -> setup_browser fails: k
\* acquisitions succeed, the next call (an acquisition, new_page or
\* set_default_timeout) raises, setup_browser re-raises, and
\* submission_worker's except returns False without any cleanup() call.
SetupBrowserFails(i) ==
    /\ units[i].st = "running"
    /\ faults < MaxFaults
    /\ faults' = faults + 1
    /\ \E k \in 0..Len(AcquireOrder) :
         units' = [units EXCEPT ![i] =
                     [@ EXCEPT !.held = Acquired(k),
                               !.setup_failed = TRUE,
                               !.result = submission_worker(TRUE, FALSE),
                               !.st = "done"]]
    /\ UNCHANGED <<hostVars, parseVars, inputVars, pc, pool_size, dispatched, drainVars,
                   endVars>>

\* submission_worker when setup_browser succeeds: FormFiller.run = fill_form,
\* the unit's own counters, cleanup, return; submission_worker returns that
\* value.  k close calls of cleanup succeed; for k < 3 the next one raises
\* and cleanup's except skips the rest.  The whole body touches only the
\* unit's own objects, so it is one step.
Run(i) ==
    /\ units[i].st = "running"
    /\ \E phase \in FillPhases, k \in 0..Len(ReleaseOrder) :
         LET cost == (IF FillRaises(phase) THEN 1 ELSE 0)
                     + (IF k < Len(ReleaseOrder) THEN 1 ELSE 0)
             got == get_next_name(names, units[i].current_name_index)
             success == fill_form(phase)
             calls == RunCleanupCalls(success)
             acquired == Acquired(Len(AcquireOrder))
             counts == RunCounts(<<units[i].own_successful, units[i].own_failed>>,
                                 <<successful_submissions, failed_submissions>>,
                                 success)
         IN  /\ faults + cost <= MaxFaults
             /\ successful_submissions' = counts.shared[1]
             /\ failed_submissions' = counts.shared[2]
             /\ faults' = faults + cost
             /\ units' = [units EXCEPT ![i] =
                  [@ EXCEPT
                     !.fill = phase,
                     !.fill_calls = @ + 1,
                     !.identity = IF phase = "goto_raises" THEN @ ELSE got.identity,
                     !.current_name_index =
                         IF phase = "goto_raises" THEN @ ELSE got.next,
                     !.own_successful = counts.own[1],
                     !.own_failed = counts.own[2],
                     !.cleanup_calls = @ + calls,
                     !.held = IF calls > 0 THEN AfterCleanup(acquired, k)
                              ELSE acquired,
                     !.result = submission_worker(FALSE, success),
                     !.st = AfterRun(success)]]
    /\ UNCHANGED <<hostVars, parseVars, inputVars, pc, pool_size, dispatched,
                   drained, future_errors, progress, endVars>>

\* ------------------------------------------------------------ drain loop

\* One iteration of `for i, future in enumerate(as_completed(futures), 1)`
\* in which future.result() returns: count it, and log progress when the
\* iteration number is a multiple of 5.  The elapsed time in the rate is
\* positive (every completion follows the start of a driver process), so the
\* progress line itself does not raise.
DrainResult(i) ==
    /\ pc = "drain"
    /\ i \in AsCompleted(units, drained)
    /\ units[i].result # "raised"
    /\ LET n == Cardinality(drained) + 1
       IN  progress' = IF n % ProgressEvery = 0 THEN progress \cup {n} ELSE progress
    /\ successful_submissions' = CountSucceeded(successful_submissions, units[i].result)
    /\ failed_submissions' = CountFailed(failed_submissions, units[i].result)
    /\ drained' = drained \cup {i}
    /\ UNCHANGED <<hostVars, parseVars, inputVars, pc, poolVars, future_errors, endVars, faults>>

\* One iteration in which future.result() raises an Exception: the except
\* branch counts a failure; the progress check is skipped.
DrainError(i) ==
    /\ pc = "drain"
    /\ i \in AsCompleted(units, drained)
    /\ units[i].result = "raised" \/ faults < MaxFaults
    /\ faults' = IF units[i].result = "raised" THEN faults ELSE faults + 1
    /\ failed_submissions' = OnFutureError(failed_submissions)
    /\ future_errors' = future_errors \cup {i}
    /\ drained' = drained \cup {i}
    /\ UNCHANGED <<hostVars, parseVars, inputVars, pc, poolVars, successful_submissions,
                   progress, endVars>>

\* as_completed is exhausted once every submitted future has been yielded.
DrainDone ==
    /\ pc = "drain"
    /\ Cardinality(drained) = dispatched
    /\ pc' = "shutdown"
    /\ UNCHANGED <<hostVars, parseVars, inputVars, poolVars, drainVars, endVars, faults>>

\* Ctrl-C: KeyboardInterrupt is raised in the main thread while it submits
\* or drains.  It is no Exception, so the drain loop's except does not catch
\* it; it leaves the `with` block through the executor's __exit__.
Interrupt ==
    /\ pc \in {"dispatch", "drain"}
    /\ faults < MaxFaults
    /\ faults' = faults + 1
    /\ exc' = "KeyboardInterrupt"
    /\ pc' = "shutdown"
    /\ UNCHANGED <<hostVars, parseVars, inputVars, poolVars, drainVars, report,
                   exit_code>>

\* ThreadPoolExecutor.__exit__ = shutdown(wait=True): returns when the worker
\* threads have run every submitted work item.
ExecutorExit ==
    /\ pc = "shutdown"
    /\ \A i \in Indices : units[i].st \in {"none", "done"}
    /\ pc' = IF exc = "none" THEN "report" ELSE "propagate"
    /\ UNCHANGED <<hostVars, parseVars, inputVars, poolVars, drainVars, endVars, faults>>

\* The final summary, then run_threaded_submissions returns.
Report ==
    /\ pc = "report"
    /\ report' = <<[attempted |-> submission_count,
                    succeeded |-> successful_submissions,
                    failed |-> failed_submissions]>>
    /\ pc' = "returned"
    /\ UNCHANGED <<hostVars, parseVars, inputVars, poolVars, drainVars, exc, exit_code, faults>>

\* main(): the try around run_threaded_submissions.  A normal return ends
\* the script (status 0); both except branches call sys.exit(1).
MainExit ==
    /\ caller = "main"
    /\ pc \in {"returned", "propagate"}
    /\ exit_code' = <<ExitStatus(pc)>>
    /\ pc' = "exited"
    /\ UNCHANGED <<hostVars, parseVars, inputVars, poolVars, drainVars, report, exc, faults>>

\* A direct call: the exception reaches the caller.
Propagate ==
    /\ caller = "direct"
    /\ pc = "propagate"
    /\ pc' = "raised"
    /\ UNCHANGED <<hostVars, parseVars, inputVars, poolVars, drainVars, endVars, faults>>

\* ---------------------------------------------------------- specification

Next ==
    \/ MainPromptCount
    \/ GetNamesFromUser
    \/ PromptInterrupt
    \/ EnterRun
    \/ Submit
    \/ DispatchDone
    \/ \E i \in Indices : Start(i)
    \/ \E i \in Indices : SetupBrowserFails(i)
    \/ \E i \in Indices : Run(i)
    \/ \E i \in Indices : DrainResult(i)
    \/ \E i \in Indices : DrainError(i)
    \/ DrainDone
    \/ Interrupt
    \/ ExecutorExit
    \/ Report
    \/ MainExit
    \/ Propagate

Spec == Init /\ [][Next]_vars

\* A step of some worker thread, and a step of the coordinating thread.
WorkerStep == \E i \in Indices : Start(i) \/ Run(i)
CoordinatorStep ==
    \/ EnterRun
    \/ Submit
    \/ DispatchDone
    \/ \E i \in Indices : DrainResult(i) \/ DrainError(i)
    \/ DrainDone
    \/ ExecutorExit
    \/ Report
    \/ MainExit
    \/ Propagate

\* The operating system keeps scheduling the worker threads and the
\* coordinating thread.  Nothing obliges the user to type or to press Ctrl-C,
\* and no fault has to happen.
Fairness ==
    /\ WF_vars(WorkerStep)
    /\ WF_vars(CoordinatorStep)

\* A call of run_threaded_submissions (empty pool, default max_workers) on
\* its own, under that scheduling.
CallInit ==
    /\ InitCommon
    /\ InitNoParse
    /\ InitUnits(MaxCount)
    /\ cpu_count \in {1, MaxCpu}
    /\ InitEmptyPoolCall

CallNext ==
    \/ EnterRun
    \/ Submit
    \/ DispatchDone
    \/ \E i \in Indices : Start(i)
    \/ \E i \in Indices : SetupBrowserFails(i)
    \/ \E i \in Indices : Run(i)
    \/ \E i \in Indices : DrainResult(i)
    \/ \E i \in Indices : DrainError(i)
    \/ DrainDone
    \/ Interrupt
    \/ ExecutorExit
    \/ Report
    \/ Propagate

FairSpec == CallInit /\ [][CallNext]_vars /\ Fairness

\* The coordinating thread of a call of run_threaded_submissions up to the
\* point where it waits for its first completion (no worker scheduled yet).
PoolNext ==
    \/ EnterRun
    \/ Submit
    \/ DispatchDone
    \/ DrainDone
    \/ ExecutorExit
    \/ Report
    \/ Propagate

PoolSpec == PoolInit /\ [][PoolNext]_vars

\* A call of run_threaded_submissions long enough for the progress line:
\* ProgressEvery or ProgressEvery + 1 submissions, empty pool, default
\* max_workers on a single-core host (one worker thread).
ProgressInit ==
    /\ InitCommon
    /\ InitNoParse
    /\ InitUnits(ProgressEvery + 1)
    /\ caller = "direct"
    /\ pc = "call"
    /\ cpu_count = 1
    /\ submission_count \in {ProgressEvery, ProgressEvery + 1}
    /\ names = <<>>
    /\ max_workers_arg = <<>>

\* The steps of such a call when every session is acquired and the user
\* does not interrupt.
ProgressNext ==
    \/ EnterRun
    \/ Submit
    \/ DispatchDone
    \/ \E i \in Indices : Start(i)
    \/ \E i \in Indices : Run(i)
    \/ \E i \in Indices : DrainResult(i)
    \/ \E i \in Indices : DrainError(i)
    \/ DrainDone
    \/ ExecutorExit
    \/ Report

ProgressSpec == ProgressInit /\ [][ProgressNext]_vars

\* One call of parse_custom_name.
ParseCustomName ==
    /\ pc = "parse"
    /\ parsed = <<>>
    /\ \E d \in parse_custom_name(custom_input) : parsed' = <<d>>
    /\ pc' = "parsed"
    /\ UNCHANGED <<hostVars, inputVars, poolVars, drainVars, endVars,
                   custom_input, faults>>

ParseNext == ParseCustomName

\* parse_custom_name applied to every string of up to MaxLen characters.
ParseSpec == ParseInit /\ [][ParseNext]_vars

TypeOK ==
    /\ caller \in {"main", "direct"}
    /\ submission_count \in (-1)..MaxCount
    /\ dispatched \in 0..MaxCount
    /\ faults \in 0..MaxFaults
    /\ drained \subseteq Indices
    /\ future_errors \subseteq drained
    /\ \A i \in Indices : units[i].result \in {"none", "True", "False", "raised"}

\* ------------------------------------------------------------------ claims

Dispatched == {i \in Indices : i < dispatched}
DrainFinished == exc = "none" /\ pc \in {"shutdown", "report", "returned", "exited"}
FaultyFill(i) == units[i].fill \in {"goto_raises", "body_raises"}

\* C1: for count >= 1 exactly count tasks are dispatched and, when the drain
\* loop has finished, succeeded + failed = count; at every moment each
\* drained completion has been counted exactly once.
C1_EachOutcomeCountedOnce ==
    /\ successful_submissions + failed_submissions = Cardinality(drained)
    /\ (DrainFinished /\ submission_count >= 1) =>
          /\ dispatched = submission_count
          /\ successful_submissions + failed_submissions = submission_count

\* C1 witness: a finished run of three tasks with a success, a failure and a
\* future whose result() raised.
C1_Witness ==
    /\ report # <<>>
    /\ submission_count = 3
    /\ successful_submissions >= 1
    /\ future_errors # {}
    /\ \E i \in drained \ future_errors : units[i].result = "False"

\* C2: with a non-empty pool of size k the unit dispatched at index i uses
\* identity pool[i mod k] (and is created with that offset); with an empty
\* pool the offset is 0 and the identity is a random one.
C2_RoundRobinIdentity ==
    \A i \in Indices :
       /\ units[i].st \in {"pending", "running"} =>
             units[i].current_name_index =
                IF names = <<>> THEN 0 ELSE i % Len(names)
       /\ units[i].identity # NoIdentity =>
             units[i].identity =
                IF names = <<>> THEN RandomIdentity ELSE names[(i % Len(names)) + 1]

\* C2 witness: pool of two, index 2 wrapped round to the first name, and unit
\* 1 completed before unit 0.
C2_Witness ==
    /\ Len(names) = 2
    /\ units[2].identity = names[1]
    /\ units[1].identity = names[2]
    /\ units[1].st = "done"
    /\ units[0].st # "done"

\* C3: a unit whose fill_form raised made exactly one cleanup call and
\* produced one failed outcome (a returned False, no exception in the
\* future).  With count = 3, an empty pool, one such unit and nothing else
\* going wrong, the report is attempted 3, succeeded 2, failed 1 and no
\* session resource is still held.
C3_RaisingUnitCleansUpAndFails ==
    /\ \A i \in Indices :
          (units[i].st = "done" /\ FaultyFill(i)) =>
              /\ units[i].cleanup_calls = 1
              /\ units[i].fill_calls = 1
              /\ units[i].result = "False"
    /\ ( /\ report # <<>>
         /\ submission_count = 3
         /\ names = <<>>
         /\ faults = 1
         /\ Cardinality({i \in Dispatched : FaultyFill(i)}) = 1
         /\ \A i \in Dispatched : ~FaultyFill(i) => units[i].fill = "confirmed" )
       => /\ report[1] = [attempted |-> 3, succeeded |-> 2, failed |-> 1]
          /\ \A i \in Dispatched : units[i].held = {} /\ units[i].cleanup_calls = 1

\* C3 witness: the scenario, with the second task the one that throws.
C3_Witness ==
    /\ report # <<>>
    /\ submission_count = 3
    /\ names = <<>>
    /\ faults = 1
    /\ units[1].fill = "body_raises"
    /\ units[0].fill = "confirmed"
    /\ units[2].fill = "confirmed"

\* C4 (as claimed): once submission_worker has returned, the unit holds no
\* session resource, on every exit path.
C4_NoSessionLeak ==
    \A i \in Indices : units[i].st = "done" => units[i].held = {}

\* C5: every finished unit left a boolean in its future, never an exception;
\* that boolean is False whenever the unit failed (session acquisition
\* included) and is decided by the unit's own run alone.
C5_FailureContainedInUnit ==
    \A i \in Indices :
       units[i].st = "done" =>
          /\ units[i].result \in {"True", "False"}
          /\ units[i].result = "True" <=>
                (~units[i].setup_failed /\ units[i].fill = "confirmed")

\* C5 witness: one unit failed to acquire its session and returned False,
\* another one completed successfully.
C5_Witness ==
    \E i, j \in Indices :
       /\ units[i].st = "done" /\ units[i].setup_failed /\ units[i].result = "False"
       /\ units[j].st = "done" /\ units[j].result = "True"

\* C6: a future whose result() raised is counted as one failure of that task
\* and nothing else; every other drained task is counted by its own result;
\* and a report is only reached after all count tasks ran and were drained.
C6_FutureErrorIsOneFailure ==
    /\ failed_submissions =
          Cardinality({i \in drained :
                          i \in future_errors \/ units[i].result # "True"})
    /\ successful_submissions =
          Cardinality({i \in drained \ future_errors : units[i].result = "True"})
    /\ (report # <<>> /\ submission_count >= 1) =>
          /\ drained = 0..(submission_count - 1)
          /\ \A i \in drained : units[i].st = "done"

\* C6 witness: the first of three futures raised in result() although its
\* task had succeeded; the other two were drained and counted afterwards.
C6_Witness ==
    /\ report # <<>>
    /\ submission_count = 3
    /\ future_errors = {0}
    /\ units[0].result = "True"
    /\ report[1].succeeded = 2
    /\ report[1].failed = 1

\* C7 (as claimed): the pool size never exceeds
\* min(max(host_parallelism / 2, 1), count), explicit max_workers or not.
C7_PoolNeverExceedsHalfHost ==
    (pool_size # <<>> /\ submission_count >= 1) =>
        pool_size[1] <= Min(Max(cpu_count \div 2, 1), submission_count)

\* C7 (amended): without an explicit max_workers the pool size is
\* min(max(cpu_count // 2, 1), count); an explicit max_workers is the pool
\* size as given.
C7_DefaultPoolSize ==
    pool_size # <<>> =>
        IF max_workers_arg = <<>>
        THEN /\ pool_size[1] = Min(Max(cpu_count \div 2, 1), submission_count)
             /\ pool_size[1] <= submission_count
             /\ 2 * pool_size[1] <= Max(cpu_count, 2)
        ELSE pool_size = max_workers_arg

\* C7 witness: three cores, three submissions, no explicit max_workers: one
\* worker (3 // 2), fewer than the count.
C7_Witness ==
    /\ max_workers_arg = <<>>
    /\ cpu_count = 3
    /\ submission_count = 3
    /\ pool_size = <<1>>

\* C8 (as claimed): with a count of 0 or less no task is created and no
\* report is produced.
C8_NonPositiveCountRejected ==
    submission_count <= 0 =>
        /\ dispatched = 0
        /\ \A i \in Indices : units[i].st = "none"
        /\ report = <<>>

\* C9 (as claimed, in the form a finite run refutes): a run that dispatched
\* its count >= 1 tasks, all of which terminated, and that has ended, has
\* emitted the final report.
C9_EveryRunReports ==
    ( /\ submission_count >= 1
      /\ dispatched = submission_count
      /\ \A i \in Dispatched : units[i].st = "done"
      /\ pc \in {"returned", "raised", "exited"} )
    => report # <<>>

\* The final report is there and accounts for every dispatched task.
C9_ReportComplete ==
    /\ report # <<>>
    /\ report[1].attempted = submission_count
    /\ report[1].succeeded + report[1].failed = submission_count
    /\ report[1].failed =
          Cardinality({i \in Dispatched :
                          i \in future_errors \/ units[i].result # "True"})

\* C9 (amended): unless the user interrupts the run, once the count >= 1
\* tasks are dispatched the coordinator eventually emits the final report,
\* whose counts add up to count and whose failed count covers every task
\* that returned False or whose result() raised.
C9_EventuallyReports ==
    (pc = "drain" /\ submission_count >= 1)
        ~> (exc = "KeyboardInterrupt" \/ C9_ReportComplete)

\* C9 witness: all three tasks failed and the summary was still emitted.
C9_Witness ==
    /\ report # <<>>
    /\ submission_count = 3
    /\ report[1].failed = 3
    /\ exc = "none"

\* C10 (as claimed): after the interrupt no queued task is started.
C10_NoStartAfterInterrupt ==
    [][exc = "KeyboardInterrupt" =>
          \A i \in Indices :
             units[i].st = "pending" => units'[i].st = "pending"]_vars

\* C11: the script ends with status 0 exactly when run_threaded_submissions
\* returned normally (its report emitted), however many of its tasks failed,
\* and with a non-zero status when the user interrupted it or an exception
\* reached main.
C11_ExitCode ==
    /\ (caller = "main" /\ pc = "exited") => exit_code # <<>>
    /\ exit_code # <<>> =>
          /\ exit_code[1] = 0 <=> (exc = "none" /\ report # <<>>)
          /\ exc # "none" => exit_code[1] # 0

\* C11 witness: every task of the run failed and the status is still 0.
C11_Witness ==
    /\ exit_code = <<0>>
    /\ submission_count >= 2
    /\ report[1].failed = submission_count

\* C12 (as claimed): when no name was entered and the user, told to "press
\* Enter again to use random names", presses Enter again, get_names_from_user
\* returns the empty pool (main goes on to call run_threaded_submissions).
C12_EnterAgainReturnsEmptyPool ==
    [][(pc = "reprompt_names" /\ names' = <<>> /\ exc' = "none")
          => pc' = "call"]_vars

\* C13 (as claimed): when fewer names than submissions were entered
\* (0 < len(names) < count), no entered name is used by more than one
\* submission, and once every submission has taken its identity exactly
\* count - len(names) of them use a random one.
C13_RemainingUseRandomNames ==
    (0 < Len(names) /\ Len(names) < submission_count) =>
        /\ \A k \in 1..Len(names) :
              Cardinality({i \in Indices : units[i].identity = names[k]}) <= 1
        /\ ( /\ dispatched = submission_count
             /\ \A i \in Dispatched : units[i].identity # NoIdentity )
           => Cardinality({i \in Dispatched : units[i].identity = RandomIdentity})
                 = submission_count - Len(names)

\* s is in the documented format name+age+gender(F/M): letters, then digits,
\* then one gender letter; FormatSplit(s) is where its letters end.
InFormat(s) ==
    \E i \in 1..(Len(s) - 2) :
       /\ \A k \in 1..i : s[k] \in Letters
       /\ \A k \in (i + 1)..(Len(s) - 1) : s[k] \in Digits
       /\ s[Len(s)] \in GenderLetters
FormatSplit(s) ==
    CHOOSE i \in 1..(Len(s) - 2) :
       /\ \A k \in 1..i : s[k] \in Letters
       /\ \A k \in (i + 1)..(Len(s) - 1) : s[k] \in Digits

\* C14 (as claimed): for an input in the documented format parse_custom_name
\* returns the leading letters as name, the digits as age, the trailing
\* gender letter in upper case as gender_code, and Female for F, Male for M.
C14_ParsesDocumentedFormat ==
    (parsed # <<>> /\ InFormat(custom_input)) =>
        LET s == custom_input
            i == FormatSplit(s)
            code == Upper(s[Len(s)])
        IN  /\ parsed[1].name = SubSeq(s, 1, i)
            /\ parsed[1].age = SubSeq(s, i + 1, Len(s) - 1)
            /\ parsed[1].gender_code = code
            /\ parsed[1].gender_full = (IF code = "F" THEN "Female" ELSE "Male")

\* C15: at every moment at most max_workers units are running, no unit runs
\* while there is no pool, and every dispatched unit is queued, running or
\* finished (and no other unit is).
C15_RunningWithinPool ==
    /\ pool_size = <<>> => RunningUnits = {}
    /\ pool_size # <<>> => Cardinality(RunningUnits) <= pool_size[1]
    /\ \A i \in Indices :
          i \in Dispatched <=> units[i].st \in {"pending", "running", "done"}

\* C15 witness: a pool of two has both workers busy while a third unit is
\* still queued.
C15_Witness ==
    /\ pool_size = <<2>>
    /\ Cardinality(RunningUnits) = 2
    /\ \E i \in Indices : units[i].st = "pending"

\* C16: a task only moves not-dispatched -> Pending -> Running -> finished;
\* a finished task holds True (Succeeded) or False (Failed) and never changes
\* again; no task goes back to Pending or Running; fill_form runs at most
\* once per task.
C16_TaskLifeCycle ==
    [][\A i \in Indices :
          /\ units[i].st = "none" => units'[i].st \in {"none", "pending"}
          /\ units[i].st = "pending" => units'[i].st \in {"pending", "running"}
          /\ units[i].st = "running" => units'[i].st \in {"running", "done"}
          /\ units[i].st = "done" => units'[i] = units[i]
          /\ units'[i].st = "done" => units'[i].result \in {"True", "False"}
          /\ units'[i].fill_calls <= 1]_vars

\* C16 witness: one task failed after its single attempt and stays Failed
\* while a later task has succeeded and another one is running.
C16_Witness ==
    \E i, j, k \in Indices :
       /\ i < j
       /\ units[i].st = "done" /\ units[i].result = "False"
       /\ units[i].fill_calls = 1 /\ ~units[i].setup_failed
       /\ units[j].st = "done" /\ units[j].result = "True"
       /\ units[k].st = "running"

\* C18: the aggregate counters change only in a step of the coordinating
\* thread inside the drain loop, one drained completion at a time; a step
\* of a worker thread leaves them alone and changes the own counters of the
\* one unit it runs, and of no other.
C18_CountersWrittenByCoordinator ==
    [][/\ (<<successful_submissions, failed_submissions>>' #
              <<successful_submissions, failed_submissions>>)
          => /\ pc = "drain" /\ pc' = "drain"
             /\ units' = units
             /\ \E i \in Indices \ drained : drained' = drained \cup {i}
       /\ \A i \in Indices :
             (<<units[i].own_successful, units[i].own_failed>>' #
                 <<units[i].own_successful, units[i].own_failed>>)
             => /\ units[i].st = "running"
                /\ \A j \in Indices \ {i} : units'[j] = units[j]]_vars

\* C18 witness: a unit has finished and counted its success in its own
\* FormFiller, the drain loop has not reached it yet, and the aggregate
\* counters show only the failure drained before.
C18_Witness ==
    /\ pc = "drain"
    /\ successful_submissions = 0
    /\ failed_submissions = 1
    /\ \E i \in Indices \ drained :
          units[i].st = "done" /\ units[i].own_successful = 1

\* C17 (as claimed): the i-th drained completion has emitted a progress line
\* if and only if i is a multiple of 5, whether it succeeded, failed or its
\* result() raised.
C17_ProgressEveryFifth ==
    \A n \in 1..Cardinality(drained) :
       n \in progress <=> n % ProgressEvery = 0

====
